---- MODULE Spec2Model ----
(***************************************************************************)
(* A state-machine model of mmworkbench/models/taggers/lstm.py: the        *)
(* LstmModel tagger (set_params / get_params, setup_model,                 *)
(* extract_features, fit, predict) seen as one model instance driven by a  *)
(* caller, plus the pure helpers _extract_features (gazetteer tags) and    *)
(* _calculate_score, each under a specification of its own.                *)
(*                                                                         *)
(* Conventions.                                                            *)
(*  - Python 3 semantics (true division, None is not ordered with ints).   *)
(*  - A probability is held in percent (0.5 is 50, 1.0 is 100); the        *)
(*    learning rate in thousandths (0.005 is 5).                           *)
(*  - A call that raises leaves every assignment made before the raise in  *)
(*    place; ret records how the last call ended.                          *)
(*  - The tensor engine is outside the file.  What is kept of it is what   *)
(*    the Python code depends on: which graph a tensor belongs to, the     *)
(*    variable names a graph already holds (tf.get_variable refuses a      *)
(*    second creation), the shapes the placeholders were declared with,    *)
(*    and numpy's reshape arithmetic.  The values the network computes are *)
(*    an uninterpreted deterministic function of what is fed, perturbed    *)
(*    when a keep probability below 1.0 is fed.                            *)
(*  - The dict literal of construct_feed_dictionary (lines 223-231) lacks  *)
(*    a comma before its last entry and is no valid expression as written; *)
(*    each call takes one of its two readings: "comma" (the entry          *)
(*    self.char_input_tf: batch_char is part of the literal) or "stray"    *)
(*    (the line is a stray copy of line 237 and is no part of it).         *)
(***************************************************************************)
EXTENDS Integers, Sequences, FiniteSets, TLC

VARIABLES
  attrs,        \* self.__dict__: the attributes set_params assigns
  config,       \* the caller's config.params (a mapping from keys to values)
  feat,         \* attributes assigned by extract_features
  tf,           \* the default graph, the session and the tensor attributes
  held,         \* what the caller holds from its last extract_features call
  fit,          \* the position of a fit call in progress
  ret,          \* how the last call on the model ended
  pure          \* input and result of a pure helper (its own specifications)

vars == <<attrs, config, feat, tf, held, fit, ret, pure>>

----------------------------------------------------------------------------
(* Bounds of the model.                                                    *)

\* the longest query, in normalized tokens
MaxTokens == 3
\* the longest list of examples handed to extract_features
MaxExamples == 3
\* fit calls made between two setup_model calls
MaxFits == 2
\* setup_model calls made on the instance, each opening a session
MaxSessions == 2
\* the longest sequence of feature bags the extractor returns for a query
MaxBags == 2
\* rows, positions per row and classes of the arrays _calculate_score gets
ScoreRows == 2
ScorePad == 2
ScoreDim == 2

----------------------------------------------------------------------------
(* Python values.                                                          *)

\* None, where an integer is expected (config.params.get of an absent key)
PyNone == -1
\* None, where a file path is expected
NoPath == "None"
\* the keep probability 1.0 that _predict assigns
FullKeep == 100

Min(a, b) == IF a < b THEN a ELSE b

\* dict.get(key, default)
Get(p, k, d) == IF k \in DOMAIN p THEN p[k] ELSE d

Range(s) == {s[i] : i \in DOMAIN s}

----------------------------------------------------------------------------
(* set_params / get_params                                                 *)

\* the keys set_params reads from its keyword arguments
ParamKeys ==
  {"number_of_epochs", "batch_size", "token_lstm_hidden_state_dimension",
   "learning_rate", "optimizer", "padding_length", "display_epoch",
   "token_embedding_dimension", "token_pretrained_embedding_filepath",
   "dense_keep_prob", "lstm_input_keep_prob", "lstm_output_keep_prob",
   "gaz_encoding_dimension", "use_character_embeddings", "char_window_sizes",
   "maximum_characters_per_word", "character_embedding_dimension"}

\* the attribute set_params stores a key's value in
AttrOf(k) ==
  CASE k = "optimizer" -> "optimizer_tf"
    [] k = "dense_keep_prob" -> "dense_keep_probability"
    [] k = "use_character_embeddings" -> "use_char_embeddings"
    [] k = "maximum_characters_per_word" -> "max_char_per_word"
    [] OTHER -> k

ParamAttrs == {AttrOf(k) : k \in ParamKeys}

KeyOf(a) == CHOOSE k \in ParamKeys : AttrOf(k) = a

\* the second argument of each parameters.get in set_params
DefaultOf(k) ==
  CASE k = "number_of_epochs" -> 20
    [] k = "batch_size" -> 20
    [] k = "token_lstm_hidden_state_dimension" -> 300
    [] k = "learning_rate" -> 5
    [] k = "optimizer" -> "adam"
    [] k = "padding_length" -> 20
    [] k = "display_epoch" -> 20
    [] k = "token_embedding_dimension" -> 300
    [] k = "token_pretrained_embedding_filepath" -> NoPath
    [] k = "dense_keep_prob" -> 50
    [] k = "lstm_input_keep_prob" -> 50
    [] k = "lstm_output_keep_prob" -> 50
    [] k = "gaz_encoding_dimension" -> 100
    [] k = "use_character_embeddings" -> FALSE
    [] k = "char_window_sizes" -> <<5>>
    [] k = "maximum_characters_per_word" -> 20
    [] k = "character_embedding_dimension" -> 10

\* set_params(**parameters): every parameter attribute is assigned, from the
\* keyword of its key when given and from the default otherwise
SetParams(d, parameters) ==
  [a \in (DOMAIN d) \cup ParamAttrs |->
     IF a \in ParamAttrs
     THEN Get(parameters, KeyOf(a), DefaultOf(KeyOf(a)))
     ELSE d[a]]

\* get_params(): self.__dict__ itself, keyed by attribute name
GetParams(d) == d

----------------------------------------------------------------------------
(* The configurations the caller uses.                                     *)

ConfigA ==
  [k \in ParamKeys |->
     CASE k = "number_of_epochs" -> 1
       [] k = "batch_size" -> 2
       [] k = "token_lstm_hidden_state_dimension" -> 8
       [] k = "learning_rate" -> 10
       [] k = "optimizer" -> "sgd"
       [] k = "padding_length" -> 2
       [] k = "display_epoch" -> 1
       [] k = "token_embedding_dimension" -> 4
       [] k = "token_pretrained_embedding_filepath" -> "glove.txt"
       [] k = "dense_keep_prob" -> 80
       [] k = "lstm_input_keep_prob" -> 70
       [] k = "lstm_output_keep_prob" -> 90
       [] k = "gaz_encoding_dimension" -> 3
       [] k = "use_character_embeddings" -> FALSE
       [] k = "char_window_sizes" -> <<3>>
       [] k = "maximum_characters_per_word" -> 5
       [] k = "character_embedding_dimension" -> 2]

ConfigB ==
  [ConfigA EXCEPT !["number_of_epochs"] = 2, !["batch_size"] = 1,
                  !["padding_length"] = 3, !["display_epoch"] = 2,
                  !["use_character_embeddings"] = TRUE]

Restrict(f, S) == [k \in S |-> f[k]]

\* config.params: no key, every key, or some of the keys
Configs ==
  { Restrict(ConfigA, {}),
    ConfigA,
    ConfigB,
    Restrict([ConfigA EXCEPT !["number_of_epochs"] = 0, !["padding_length"] = 3],
             {"number_of_epochs", "padding_length"}) }

----------------------------------------------------------------------------
(* Feature bags and the gazetteer pattern.                                 *)
(*                                                                         *)
(* A feature-bag key is the sequence of its '|'-separated fields; a field  *)
(* "name:value" is <<name, value>> and a field without a colon is <<name>>.*)
(* A bag is the set of its keys (the values of the dict are never read).   *)

DEFAULT_GAZ_LABEL == "O"
DEFAULT_LABEL == "B|UNK"
\* the encoding the encoders pad with (DEFAULT_PADDED_TOKEN, DEFAULT_CHAR_TOKEN)
PadIndex == 0
REGEX_TYPE_POSITIONAL_INDEX == 1

\* the strings that \w+ matches, among those the keys below use
Words == {"city", "state", "start", "end"}

\* re.match(GAZ_PATTERN_MATCH, key) with
\* GAZ_PATTERN_MATCH = 'in-gaz\|type:(\w+)\|pos:(\w+)\|': anchored at the
\* start of the key, and the '|' that ends the pattern needs a field after pos
RegexMatch(key) ==
  /\ Len(key) >= 4
  /\ key[1] = <<"in-gaz">>
  /\ Len(key[2]) = 2 /\ key[2][1] = "type" /\ key[2][2] \in Words
  /\ Len(key[3]) = 2 /\ key[3][1] = "pos" /\ key[3][2] \in Words

\* regex_match.group(index): group 1 is the type, group 2 the position
Group(key, index) == key[index + 1][2]

\* (mutation of MatchedGroup: the position group is kept instead of the type)
MatchedGroupPosition(key) == Group(key, 2)

\* regex_match.group(REGEX_TYPE_POSITIONAL_INDEX)
MatchedGroup(key) == Group(key, REGEX_TYPE_POSITIONAL_INDEX)

\* combined_gaz_features after the loop over the keys of one bag
CombinedGazFeatures(bag) == {MatchedGroup(key) : key \in {k \in bag : RegexMatch(k)}}

\* the orders list(a_set) may come in: a set has no order of its own
Orderings(S) ==
  {s \in [1..Cardinality(S) -> S] : \A i, j \in 1..Cardinality(S) : s[i] = s[j] => i = j}

\* The values ",".join(list(combined_gaz_features)) may take, each held as the
\* sequence of the joined types (the string split at its commas).
JoinedTypes(S) == Orderings(S)

\* the gazetteer tag(s) appended for one token's bag (lines 540-562)
GazTags(bag) ==
  IF bag = {} THEN {<<DEFAULT_GAZ_LABEL>>}
  ELSE IF Cardinality(CombinedGazFeatures(bag)) = 0 THEN {<<DEFAULT_GAZ_LABEL>>}
  ELSE JoinedTypes(CombinedGazFeatures(bag))

\* extracted_gaz_tokens for a sequence of bags: one tag per bag, in order
ExtractedGazTokens(bags) ==
  {t \in [1..Len(bags) -> UNION {GazTags(bags[i]) : i \in 1..Len(bags)}] :
     \A i \in 1..Len(bags) : t[i] \in GazTags(bags[i])}

\* encode_sequence_of_tokens of an encoder built with padding length pad:
\* the first pad tokens, padded with the encoder's default
EncodeSequenceOfTokens(tokens, pad, default) ==
  [i \in 1..pad |-> IF i <= Len(tokens) THEN tokens[i] ELSE default]

\* (mutation of LengthsAgree: the assert is gone)
LengthsAgreeAlways(gazTokens, tokens) == TRUE

\* the condition of the assert of line 564
LengthsAgree(gazTokens, tokens) == Len(gazTokens) = Len(tokens)

\* _extract_features(example) once extract_sequence_features has returned
\* example.bags and the tags gazTokens were derived: what it raises or
\* returns, and the encoder calls it made, in order
ExtractFeaturesOf(example, gazTokens, pad, useChar, charPad) ==
  IF ~LengthsAgree(gazTokens, example.tokens)
  THEN [raised |-> TRUE, err |-> "AssertionError", gaz_tokens |-> gazTokens,
        calls |-> <<>>, encoded_gaz |-> <<>>, padded_query |-> <<>>,
        padded_char |-> <<>>]
  ELSE [raised |-> FALSE, err |-> "", gaz_tokens |-> gazTokens,
        calls |-> IF useChar THEN <<"gaz", "word", "char">> ELSE <<"gaz", "word">>,
        encoded_gaz |-> EncodeSequenceOfTokens(gazTokens, pad, <<DEFAULT_GAZ_LABEL>>),
        padded_query |-> EncodeSequenceOfTokens(example.tokens, pad, PadIndex),
        padded_char |-> IF useChar
                        THEN EncodeSequenceOfTokens(example.tokens, charPad, PadIndex)
                        ELSE <<>>]

----------------------------------------------------------------------------
(* The examples, labels and resources the caller uses.                     *)

KCityStart == << <<"in-gaz">>, <<"type", "city">>, <<"pos", "start">>, <<"p_fe">> >>
KCityEnd == << <<"in-gaz">>, <<"type", "city">>, <<"pos", "end">>, <<"pct-char-len">> >>
KStateStart == << <<"in-gaz">>, <<"type", "state">>, <<"pos", "start">>, <<"p_fe">> >>
\* a feature that is no gazetteer feature
KBagOfWords == << <<"bag-of-words">>, <<"length", "1">> >>
\* a key that stops after the position: the pattern's last '|' finds nothing
KNoTail == << <<"in-gaz">>, <<"type", "city">>, <<"pos", "start">> >>

\* resources['gazetteers'].keys()
Gazetteers == {"city", "state"}

\* the bag the feature extractor returns for the j-th token of a query
BagOfToken(j) ==
  CASE j % 3 = 1 -> {KCityStart, KCityEnd}
    [] j % 3 = 2 -> {KBagOfWords}
    [] OTHER -> {}

\* a query of n normalized tokens (token j is the integer j) with its bags
Example(n) ==
  [tokens |-> [j \in 1..n |-> j], bags |-> [j \in 1..n |-> BagOfToken(j)]]

\* a query for which the extractor returns one bag too many
BadExample == [tokens |-> <<1>>, bags |-> <<{}, {KStateStart}>>]

\* the well-formed queries of a list follow each other by length
GoodExample(i) == Example(((i - 1) % MaxTokens) + 1)

\* the lists handed to extract_features: up to MaxExamples well-formed
\* queries, or a list for whose second query the extractor answers badly
ExampleLists ==
  {[i \in 1..k |-> GoodExample(i)] : k \in 1..MaxExamples}
  \cup {<<GoodExample(1), BadExample, GoodExample(2)>>}

\* how the caller labels a query: the first token "B|city", the others "O"
LabelsOf(example) ==
  [j \in 1..Len(example.tokens) |-> IF j = 1 THEN "B|city" ELSE "O"]

AllLabels == <<DEFAULT_LABEL, "O", "B|city">>

\* the label encoder's vocabulary after encoding y: its default label and the
\* labels seen, in index order (index 0 first)
LabelVocabulary(y) ==
  LET Seen(l) == l = DEFAULT_LABEL \/ \E i \in DOMAIN y : l \in Range(y[i])
  IN  SelectSeq(AllLabels, Seen)

IndexIn(vocab, l) == (CHOOSE i \in DOMAIN vocab : vocab[i] = l) - 1

----------------------------------------------------------------------------
(* Initial state: a constructed LstmModel, before any call.                *)

Empty == [k \in {} |-> 0]

NoFeatures ==
  [encoders |-> FALSE, encPad |-> 0, charEncoder |-> FALSE, charPad |-> 0,
   gaz_dimension |-> 0, output_dimension |-> 0, vocab |-> <<>>,
   extracted |-> FALSE, gaz |-> <<>>, char |-> <<>>, seq |-> <<>>]

NoGraph ==
  [session |-> 0, vars |-> {}, ph |-> "none", out |-> "none",
   charPh |-> "none", outPh |-> FALSE, initialized |-> FALSE,
   pad |-> 0, outdim |-> 0, embdim |-> 0, sinceSetup |-> 0]

NothingHeld == [valid |-> FALSE, train |-> FALSE, examples |-> <<>>, X |-> <<>>, y |-> <<>>]

Idle == [pc |-> "idle", epoch |-> 0, indices |-> <<>>, num_batches |-> 0, batch |-> 0]

NoCall == [op |-> "none", arg |-> "", status |-> "ok", err |-> "", fed |-> FALSE,
           feed |-> Empty, X |-> <<>>, value |-> <<>>, steps |-> 0]

NoPure == [fn |-> "none"]

Returned(op) == [NoCall EXCEPT !.op = op]

Raised(op, err) == [NoCall EXCEPT !.op = op, !.status = "raised", !.err = err]

Init ==
  /\ attrs = Empty
  /\ config = Empty
  /\ feat = NoFeatures
  /\ tf = NoGraph
  /\ held = NothingHeld
  /\ fit = Idle
  /\ ret = NoCall
  /\ pure = NoPure

Configured == DOMAIN attrs # {}

----------------------------------------------------------------------------
(* setup_model (the second definition, lines 196-204, which replaces the   *)
(* first of lines 192-194 when the class body is executed)                 *)

Stale(x) == IF x = "none" THEN "none" ELSE "stale"

\* (mutation of ResetDefaultGraph: the graph is kept)
KeepDefaultGraph(t) == t

\* tf.reset_default_graph(): the default graph is a new, empty one; the
\* tensors the attributes name belong to the graph that was dropped
ResetDefaultGraph(t) ==
  [t EXCEPT !.vars = {}, !.ph = Stale(t.ph), !.out = Stale(t.out),
            !.charPh = Stale(t.charPh), !.embdim = 0]

\* tf.Session(): a new session on the default graph, nothing initialized
NewSession(t) == [t EXCEPT !.session = @ + 1, !.initialized = FALSE]

SetupModel(c) ==
  /\ fit.pc = "idle"
  /\ tf.session < MaxSessions
  /\ config' = c
  /\ attrs' = SetParams(attrs, c)
  /\ tf' = [NewSession(ResetDefaultGraph(tf)) EXCEPT !.sinceSetup = 0]
  /\ ret' = Returned("setup_model")
  /\ UNCHANGED <<feat, held, fit, pure>>

----------------------------------------------------------------------------
(* extract_features                                                        *)

\* (mutation of SeqLengthOf: the length is not capped)
SeqLengthUncapped(example, pad) == Len(example.tokens)

\* (mutation of SeqLengthOf: every query is taken to fill the padding)
SeqLengthPadded(example, pad) == pad

\* one pass of the loop of _extract_seq_length
SeqLengthOf(example, pad) ==
  IF Len(example.tokens) > pad THEN pad ELSE Len(example.tokens)

\* _extract_seq_length(examples)
ExtractSeqLength(examples, pad) ==
  [i \in DOMAIN examples |-> SeqLengthOf(examples[i], pad)]

\* the tags the loop of _get_features may derive, example by example
GazTokenLists(examples) ==
  {g \in [DOMAIN examples ->
            UNION {ExtractedGazTokens(examples[i].bags) : i \in DOMAIN examples}] :
     \A i \in DOMAIN examples : g[i] \in ExtractedGazTokens(examples[i].bags)}

\* _get_features(examples): the loop stops at the first example that raises.
\* An encoder built with padding length None cannot pad, and char_encoder is
\* an attribute only once a train-time call has built it.
GetFeatures(examples, g, f, useChar) ==
  LET one(i) == ExtractFeaturesOf(examples[i], g[i], f.encPad, useChar, f.charPad)
      bad(i) == \/ ~LengthsAgree(g[i], examples[i].tokens)
                \/ f.encPad = PyNone
                \/ useChar /\ ~f.charEncoder
      err(i) == IF ~LengthsAgree(g[i], examples[i].tokens) THEN "AssertionError"
                ELSE IF f.encPad = PyNone THEN "TypeError"
                ELSE "AttributeError"
  IN  IF \E i \in DOMAIN examples : bad(i)
      THEN [raised |-> TRUE,
            err |-> err(CHOOSE i \in DOMAIN examples :
                          bad(i) /\ \A j \in 1..(i - 1) : ~bad(j)),
            X |-> <<>>, gaz |-> <<>>, char |-> <<>>]
      ELSE [raised |-> FALSE, err |-> "",
            X |-> [i \in DOMAIN examples |-> [idx |-> i, enc |-> one(i).padded_query]],
            gaz |-> [i \in DOMAIN examples |-> [idx |-> i, enc |-> one(i).encoded_gaz]],
            char |-> IF useChar
                     THEN [i \in DOMAIN examples |-> [idx |-> i, enc |-> one(i).padded_char]]
                     ELSE <<>>]

\* the label encodings of the train-time branch (lines 172-176)
EmbeddedLabels(y, vocab, pad) ==
  [i \in DOMAIN y |->
     [idx |-> i,
      enc |-> EncodeSequenceOfTokens([j \in DOMAIN y[i] |-> IndexIn(vocab, y[i][j])],
                                     pad, IndexIn(vocab, DEFAULT_LABEL))]]

\* extract_features(examples, config, resources, y): train is the call with
\* labels y, the other is the predict-time call (y is None)
ExtractFeatures(examples, train) ==
  /\ fit.pc = "idle"
  /\ Configured
  /\ LET y == [i \in DOMAIN examples |-> LabelsOf(examples[i])]
         a1 == IF train
               THEN [attrs EXCEPT
                       !["token_pretrained_embedding_filepath"] =
                          Get(config, "token_pretrained_embedding_filepath", NoPath),
                       !["padding_length"] = Get(config, "padding_length", PyNone)]
               ELSE attrs
         useChar == a1["use_char_embeddings"]
         f1 == IF train
               THEN [feat EXCEPT !.encoders = TRUE,
                                 !.encPad = a1["padding_length"],
                                 !.gaz_dimension = Cardinality(Gazetteers) + 1,
                                 !.charEncoder = @ \/ useChar,
                                 !.charPad = IF useChar THEN a1["padding_length"] ELSE @,
                                 !.vocab = <<>>]
               ELSE feat
         vocab == LabelVocabulary(y)
         f2 == IF train /\ f1.encPad # PyNone
               THEN [f1 EXCEPT !.vocab = vocab, !.output_dimension = Len(vocab)]
               ELSE f1
         call == [Returned("extract_features") EXCEPT
                    !.arg = IF train THEN "train" ELSE "predict"]
         fail(e) == [call EXCEPT !.status = "raised", !.err = e]
     IN  IF train /\ f1.encPad = PyNone
         THEN \* the label encoder cannot pad to None (line 174)
              /\ attrs' = a1 /\ feat' = f1 /\ held' = NothingHeld
              /\ ret' = fail("TypeError")
         ELSE IF ~train /\ ~feat.encoders
         THEN \* no train-time call yet: self.example_type is no attribute
              /\ attrs' = a1 /\ feat' = f2 /\ held' = NothingHeld
              /\ ret' = fail("AttributeError")
         ELSE \E g \in GazTokenLists(examples) :
                LET r == GetFeatures(examples, g, f2, useChar)
                IN  IF r.raised
                    THEN /\ attrs' = a1 /\ feat' = f2 /\ held' = NothingHeld
                         /\ ret' = fail(r.err)
                    ELSE /\ attrs' = a1
                         /\ feat' = [f2 EXCEPT !.extracted = TRUE, !.gaz = r.gaz,
                                               !.char = r.char,
                                               !.seq = ExtractSeqLength(
                                                         examples, a1["padding_length"])]
                         /\ held' = [valid |-> TRUE, train |-> train,
                                     examples |-> examples, X |-> r.X,
                                     y |-> IF train
                                           THEN EmbeddedLabels(y, f2.vocab, f2.encPad)
                                           ELSE <<>>]
                         /\ ret' = call
  /\ UNCHANGED <<config, tf, fit, pure>>

----------------------------------------------------------------------------
(* construct_tf_variables: the graph a fit call builds.                    *)
(*                                                                         *)
(* tf.vars holds the variables of the default graph, each with the name it *)
(* was asked under, the suffix the graph made that name unique with, and   *)
(* whether the fit call in progress (or the last one) created it ("this")  *)
(* or an earlier one did.  ph, out and charPh say where the tensors named  *)
(* by the placeholder attributes, by lstm_output_tf and by char_input_tf   *)
(* are: "none" (no such attribute), "live" (in the session's graph) or     *)
(* "stale" (in a graph that was dropped).  outPh: lstm_output_tf was built *)
(* on the placeholders the attributes name now.                            *)
(* pad and outdim are the padding length and the output dimension the     *)
(* placeholders were declared with, embdim the last dimension of the       *)
(* embedding the default graph holds (0 when it holds none).               *)

\* the variables _construct_lstm_network asks for by name (tf.get_variable,
\* in its own calls and in those of bidirectional_dynamic_rnn)
LstmNames ==
  {"initial_cell_state_lstm_cell_forward_tf",
   "initial_output_state_lstm_cell_forward_tf",
   "initial_cell_state_lstm_cell_backward_tf",
   "initial_output_state_lstm_cell_backward_tf",
   "bidirectional_rnn/fw", "bidirectional_rnn/bw",
   "output_weights_tf", "output_bias_tf"}

\* a variable created under a default name, which the graph makes unique
Unique(t, name) ==
  [name |-> name, n |-> Cardinality({v \in t.vars : v.name = name}), by |-> "this"]

\* construct_tf_variables(), lines 96-136, on attributes a, features f and
\* graph t: the graph and attributes it leaves, and whether it raised
ConstructTfVariables(a, f, t) ==
  LET \* lines 100-123: the placeholders
      t1 == [t EXCEPT !.ph = "live", !.outPh = FALSE,
                      !.pad = a["padding_length"], !.outdim = f.output_dimension]
      \* line 250: the dense gazetteer layer
      t2 == [t1 EXCEPT !.vars = @ \cup {Unique(t1, "fully_connected/weights")}]
      \* lines 257-270: the character branch reads self.char_input_tf
      useChar == a["use_char_embeddings"]
      charErr == IF a["char_window_sizes"] = <<>> THEN "ValueError"
                 ELSE IF t.charPh = "none" THEN "AttributeError"
                 ELSE IF t.charPh = "stale" THEN "ValueError"
                 ELSE ""
      \* lines 267-274: the last dimension of the concatenated embedding;
      \* apply_convolution returns character_embedding_dimension per window
      embdim == a["token_embedding_dimension"]
                + (IF useChar
                   THEN Len(a["char_window_sizes"]) * a["character_embedding_dimension"]
                   ELSE 0)
                + a["gaz_encoding_dimension"]
      t2c == IF useChar
             THEN [t2 EXCEPT !.vars = @ \cup {Unique(t2, "char_convolution")},
                             !.embdim = embdim]
             ELSE [t2 EXCEPT !.embdim = embdim]
      \* lines 447-475: tf.get_variable refuses a name the graph holds
      collide == \E v \in t2c.vars : v.name \in LstmNames
      t3 == [t2c EXCEPT !.vars = @ \cup {[name |-> nm, n |-> 0, by |-> "this"] :
                                           nm \in LstmNames},
                        !.out = "live", !.outPh = TRUE]
      \* lines 128-133
      t4 == IF useChar THEN [t3 EXCEPT !.charPh = "live"] ELSE t3
      \* lines 135-136: optimizer_tf now names the training operation
      a4 == [a EXCEPT !["optimizer_tf"] = "minimize_op"]
  IN  IF useChar /\ charErr # ""
      THEN [raised |-> TRUE, err |-> charErr, tf |-> t2, attrs |-> a]
      ELSE IF collide
      THEN [raised |-> TRUE, err |-> "ValueError", tf |-> t2c, attrs |-> a]
      ELSE [raised |-> FALSE, err |-> "", tf |-> t4, attrs |-> a4]

----------------------------------------------------------------------------
(* construct_feed_dictionary                                               *)

\* The literal of lines 223-231 in the two readings, then lines 233-237.
\* Naming self.char_input_tf or the other placeholders raises when the
\* attribute was never assigned.
ConstructFeedDictionary(a, t, reading, batch_examples, batch_char, batch_gaz, batch_seq_len, batch_labels) ==
  LET literal ==
        [query_input_tf |-> batch_examples,
         batch_sequence_lengths_tf |-> batch_seq_len,
         gaz_input_tf |-> batch_gaz,
         dense_keep_prob_tf |-> a["dense_keep_probability"],
         lstm_input_keep_prob_tf |-> a["lstm_input_keep_prob"],
         lstm_output_keep_prob_tf |-> a["lstm_output_keep_prob"]]
      withChar == reading = "comma" \/ Len(batch_char) > 0
      withLabels == Len(batch_labels) > 0
      labels == IF withLabels THEN "label_tf" :> batch_labels ELSE Empty
      chars == IF withChar THEN "char_input_tf" :> batch_char ELSE Empty
  IN  IF t.ph = "none" \/ (withChar /\ t.charPh = "none")
      THEN [raised |-> TRUE, err |-> "AttributeError", dict |-> Empty]
      ELSE [raised |-> FALSE, err |-> "", dict |-> literal @@ labels @@ chars]

\* session.run accepts the feed: the fetched tensor and the fed placeholders
\* are in the session's graph, the tensor was built on these placeholders,
\* the variables were initialized, and what is fed has the declared shapes
\* (one row per example in every array, padding-length positions per row, no
\* sequence length beyond them)
SessionRuns(t, fd) ==
  LET X == fd["query_input_tf"]
      gaz == fd["gaz_input_tf"]
      seq == fd["batch_sequence_lengths_tf"]
  IN  /\ t.out = "live" /\ t.outPh /\ t.ph = "live" /\ t.initialized
      /\ Len(X) > 0 /\ Len(gaz) = Len(X) /\ Len(seq) = Len(X)
      /\ \A i \in DOMAIN X :
           Len(X[i].enc) = t.pad /\ Len(gaz[i].enc) = t.pad /\ seq[i] <= t.pad
      /\ "char_input_tf" \in DOMAIN fd =>
           /\ t.charPh = "live"
           /\ Len(fd["char_input_tf"]) = Len(X)
           /\ \A i \in DOMAIN X : Len(fd["char_input_tf"][i].enc) = t.pad
      /\ "label_tf" \in DOMAIN fd =>
           /\ Len(fd["label_tf"]) = Len(X)
           /\ \A i \in DOMAIN X : Len(fd["label_tf"][i].enc) = t.pad

\* dropout draws noise when a keep probability below 1.0 is fed
Noises(fd) ==
  IF /\ fd["dense_keep_prob_tf"] = FullKeep
     /\ fd["lstm_input_keep_prob_tf"] = FullKeep
     /\ fd["lstm_output_keep_prob_tf"] = FullKeep
  THEN {0}
  ELSE {0, 1}

\* The logits lstm_output_tf evaluates to, flattened: entry p (from 0) is
\* the logit of class p % outdim at position (p \div outdim) % pad of row
\* (p \div outdim) \div pad of the fed examples.
Logit(t, fd, noise, p) ==
  LET pos == p \div t.outdim
      c == p % t.outdim
      r == pos \div t.pad
      j == pos % t.pad
  IN  (3 * fd["query_input_tf"][r + 1].enc[j + 1] + 2 * j + 5 * c
         + noise * (c + 1)) % 7

\* np.argmax along the last axis: the first index of the largest entry
Argmax(v) ==
  (CHOOSE i \in DOMAIN v :
     /\ \A k \in DOMAIN v : v[k] <= v[i]
     /\ \A k \in 1..(i - 1) : v[k] < v[i]) - 1

----------------------------------------------------------------------------
(* fit                                                                     *)

\* seq[start:end] of Python, start and end counted from 0
PySlice(seq, start, end) ==
  IF start >= Len(seq) THEN <<>> ELSE SubSeq(seq, start + 1, Min(end, Len(seq)))

\* (mutation of NumBatches: integer division, the short last batch is lost)
NumBatchesFloor(n, batch_size) == n \div batch_size

\* int(math.ceil(len(examples) / batch_size))
NumBatches(n, batch_size) == (n + batch_size - 1) \div batch_size

\* the orders np.random.shuffle may leave the indices in (positions from 1)
Shuffles(n) == {p \in [1..n -> 1..n] : \A i, j \in 1..n : p[i] = p[j] => i = j}

\* arr[indices]
Take(arr, indices) == [i \in DOMAIN indices |-> arr[indices[i]]]

\* fit(X, y) up to the loop of _fit: lines 28-30 and 586-589.  The caller
\* passes what its last train-time extract_features call returned.
FitBegin ==
  /\ fit.pc = "idle"
  /\ held.valid /\ held.train
  /\ tf.sinceSetup < MaxFits
  /\ LET t0 == [tf EXCEPT !.sinceSetup = @ + 1,
                          !.vars = {[v EXCEPT !.by = "earlier"] : v \in @}]
         c == ConstructTfVariables(attrs, feat, t0)
     IN  /\ attrs' = c.attrs
         /\ IF c.raised
            THEN /\ tf' = c.tf
                 /\ fit' = Idle
                 /\ ret' = Raised("fit", c.err)
            ELSE \* session.run of the two initializers
                 /\ tf' = [c.tf EXCEPT !.initialized = TRUE]
                 /\ fit' = [Idle EXCEPT !.pc = "epoch"]
                 /\ ret' = [Returned("fit") EXCEPT !.status = "running"]
  /\ UNCHANGED <<config, feat, held, pure>>

\* lines 591-604: the next epoch shuffles the indices and counts its batches
FitEpoch ==
  /\ fit.pc = "epoch"
  /\ fit.epoch < attrs["number_of_epochs"]
  /\ \E indices \in Shuffles(Len(held.X)) :
       fit' = [fit EXCEPT !.pc = "batch", !.indices = indices, !.batch = 0,
                          !.num_batches = NumBatches(Len(held.X), attrs["batch_size"])]
  /\ UNCHANGED <<attrs, config, feat, tf, held, ret, pure>>

\* lines 646 and 31: the loop over the epochs is over
FitReturn ==
  /\ fit.pc = "epoch"
  /\ fit.epoch >= attrs["number_of_epochs"]
  /\ fit' = Idle
  /\ ret' = [Returned("fit") EXCEPT !.steps = ret.steps]
  /\ UNCHANGED <<attrs, config, feat, tf, held, pure>>

\* (mutation of BatchOf: the gazetteer rows are sliced in their stored order)
BatchOfStoredGaz(indices, b, batch_size, useChar) ==
  LET from == b * batch_size
      to == (b * batch_size) + batch_size
  IN  [examples |-> PySlice([i \in DOMAIN indices |-> held.X[indices[i]]], from, to),
       labels |-> PySlice([i \in DOMAIN indices |-> held.y[indices[i]]], from, to),
       gaz |-> PySlice(feat.gaz, from, to),
       seq_len |-> PySlice([i \in DOMAIN indices |-> feat.seq[indices[i]]], from, to),
       char |-> IF useChar
                THEN PySlice([i \in DOMAIN indices |-> feat.char[indices[i]]], from, to)
                ELSE <<>>]

\* lines 607-614: the arrays of batch number b (from 0) of the epoch; char is
\* the list [] unless character embeddings are in use
BatchOf(indices, b, batch_size, useChar) ==
  LET from == b * batch_size
      to == (b * batch_size) + batch_size
  IN  [examples |-> PySlice(Take(held.X, indices), from, to),
       labels |-> PySlice(Take(held.y, indices), from, to),
       gaz |-> PySlice(Take(feat.gaz, indices), from, to),
       seq_len |-> PySlice(Take(feat.seq, indices), from, to),
       char |-> IF useChar THEN PySlice(Take(feat.char, indices), from, to) ELSE <<>>]

\* lines 606-645: one batch.  Line 616 reads batch_char.shape, which a list
\* does not have; past it, a batch whose number display_epoch divides runs
\* lstm_output_tf, cost_tf and optimizer_tf, and any other batch names
\* self.optimizer, which is no attribute.
FitBatch ==
  /\ fit.pc = "batch"
  /\ fit.batch < fit.num_batches
  /\ LET useChar == attrs["use_char_embeddings"]
         b == BatchOf(fit.indices, fit.batch, attrs["batch_size"], useChar)
         \* the call ends in the batch it had assembled, with the optimizer
         \* steps it had run
         raise(e) == /\ fit' = Idle
                     /\ ret' = [Raised("fit", e) EXCEPT !.arg = "batch", !.value = b,
                                                       !.steps = ret.steps]
     IN  IF ~useChar
         THEN raise("AttributeError")
         ELSE IF fit.batch % attrs["display_epoch"] # 0
         THEN raise("AttributeError")
         ELSE \E reading \in {"comma", "stray"} :
                LET fd == ConstructFeedDictionary(attrs, tf, reading, b.examples,
                                                  b.char, b.gaz, b.seq_len, b.labels)
                IN  IF fd.raised
                    THEN raise(fd.err)
                    ELSE IF ~SessionRuns(tf, fd.dict)
                    THEN raise("InvalidArgumentError")
                    ELSE \* optimizer_tf is among the fetches: one step
                         /\ ret' = [ret EXCEPT !.fed = TRUE, !.feed = fd.dict,
                                               !.value = b, !.steps = @ + 1]
                         /\ fit' = IF fit.batch + 1 < fit.num_batches
                                   THEN [fit EXCEPT !.batch = @ + 1]
                                   ELSE [fit EXCEPT !.pc = "epoch", !.epoch = @ + 1]
  /\ UNCHANGED <<attrs, config, feat, tf, held, pure>>

----------------------------------------------------------------------------
(* predict                                                                 *)

\* (mutation of PredictKeepProbs: the configured values stay)
ConfiguredKeepProbs(a) == a

\* lines 660-662
PredictKeepProbs(a) ==
  [a EXCEPT !["dense_keep_probability"] = FullKeep,
            !["lstm_input_keep_prob"] = FullKeep,
            !["lstm_output_keep_prob"] = FullKeep]

\* lines 668-669: the fetched logits (rows * t.pad * t.outdim of them)
\* reshaped to [-1, pad, outdim] and reduced by argmax; <<>> when the count
\* is no multiple of pad * outdim and reshape raises
PredictedIndices(t, fd, noise, pad, outdim) ==
  LET total == Len(fd["query_input_tf"]) * t.pad * t.outdim
      rows == total \div (pad * outdim)
  IN  [r \in 1..rows |->
         [j \in 1..pad |->
            Argmax([c \in 1..outdim |->
                      Logit(t, fd, noise, ((r - 1) * pad + (j - 1)) * outdim + (c - 1))])]]

Reshapes(t, fd, pad, outdim) ==
  (Len(fd["query_input_tf"]) * t.pad * t.outdim) % (pad * outdim) = 0

\* (mutation of DecodedQueries: every row is cut at the first recorded length)
DecodedQueriesFirstLength(output, seq, vocab) ==
  [idx \in DOMAIN output |->
     LET cut == PySlice(output[idx], 0, seq[1])
     IN  [k \in DOMAIN cut |-> vocab[cut[k] + 1]]]

\* lines 671-676: each row cut at its sequence length and decoded
DecodedQueries(output, seq, vocab) ==
  [idx \in DOMAIN output |->
     LET cut == PySlice(output[idx], 0, seq[idx])
     IN  [k \in DOMAIN cut |-> vocab[cut[k] + 1]]]

\* lines 37-41: zip stops at the shorter of the two
ResizedPredictedTags(tags, seq) ==
  [i \in 1..Min(Len(tags), Len(seq)) |-> PySlice(tags[i], 0, seq[i])]

\* what the caller may pass to predict: what its last extract_features call
\* returned, or that without its last row
PredictInputs ==
  {held.X} \cup (IF Len(held.X) > 1 THEN {SubSeq(held.X, 1, Len(held.X) - 1)} ELSE {})

\* predict(X), lines 33-41 and 648-678
Predict(X, reading) ==
  /\ fit.pc = "idle"
  /\ held.valid
  /\ LET a1 == PredictKeepProbs(attrs)
         fd == ConstructFeedDictionary(a1, tf, reading, X, feat.char, feat.gaz,
                                       feat.seq, <<>>)
         pad == a1["padding_length"]
         outdim == feat.output_dimension
         call == [Returned("predict") EXCEPT
                    !.X = X,
                    !.arg = IF ret.op = "predict" /\ ret.status = "ok" /\ ret.X = X
                            THEN "repeated" ELSE "first"]
         fail(e) == [call EXCEPT !.status = "raised", !.err = e]
     IN  /\ attrs' = a1
         /\ IF tf.out = "none"
            THEN ret' = fail("AttributeError")
            ELSE IF fd.raised
            THEN ret' = fail(fd.err)
            ELSE IF ~SessionRuns(tf, fd.dict)
            THEN ret' = [fail("InvalidArgumentError") EXCEPT !.fed = TRUE,
                                                            !.feed = fd.dict]
            ELSE IF ~Reshapes(tf, fd.dict, pad, outdim)
            THEN ret' = [fail("ValueError") EXCEPT !.fed = TRUE, !.feed = fd.dict]
            ELSE \E noise \in Noises(fd.dict) :
                   LET output == PredictedIndices(tf, fd.dict, noise, pad, outdim)
                   IN  IF Len(output) > Len(feat.seq)
                       THEN ret' = [fail("IndexError") EXCEPT !.fed = TRUE,
                                                             !.feed = fd.dict]
                       ELSE ret' = [call EXCEPT
                                      !.fed = TRUE, !.feed = fd.dict,
                                      !.value = ResizedPredictedTags(
                                                  DecodedQueries(output, feat.seq,
                                                                 feat.vocab),
                                                  feat.seq)]
  /\ UNCHANGED <<config, feat, tf, held, fit, pure>>

----------------------------------------------------------------------------

Next ==
  \/ \E c \in Configs : SetupModel(c)
  \/ \E examples \in ExampleLists, train \in BOOLEAN : ExtractFeatures(examples, train)
  \/ FitBegin
  \/ FitEpoch
  \/ FitBatch
  \/ FitReturn
  \/ \E X \in PredictInputs, reading \in {"comma", "stray"} : Predict(X, reading)

Spec == Init /\ [][Next]_vars

----------------------------------------------------------------------------
(* set_params and get_params on their own                                  *)

\* the keys the caller gives or leaves out
ParamSample ==
  {"number_of_epochs", "optimizer", "padding_length", "dense_keep_prob",
   "lstm_input_keep_prob", "use_character_embeddings", "maximum_characters_per_word"}

ParamConfigs == {Restrict(ConfigB, S) : S \in SUBSET ParamSample} \cup {ConfigA}

\* set_params(**parameters), lines 43-91
SetParamsCall(parameters) ==
  /\ attrs' = SetParams(attrs, parameters)
  /\ ret' = [Returned("set_params") EXCEPT !.arg = "parameters"]
  /\ UNCHANGED <<config, feat, tf, held, fit, pure>>

\* set_params applied to the mapping get_params returns
SetParamsOfGetParams ==
  /\ Configured
  /\ attrs' = SetParams(attrs, GetParams(attrs))
  /\ ret' = [Returned("set_params") EXCEPT !.arg = "get_params"]
  /\ UNCHANGED <<config, feat, tf, held, fit, pure>>

NextParams ==
  \/ \E parameters \in ParamConfigs : SetParamsCall(parameters)
  \/ SetParamsOfGetParams

SpecParams == Init /\ [][NextParams]_vars

----------------------------------------------------------------------------
(* _extract_features on its own                                            *)

GazKeys == {KCityStart, KCityEnd, KStateStart, KBagOfWords, KNoTail}

\* the queries: up to MaxBags tokens, and up to MaxBags bags of any keys
GazExamples ==
  {[tokens |-> [j \in 1..n |-> j], bags |-> b] :
     n \in 1..MaxBags,
     b \in UNION {[1..m -> SUBSET GazKeys] : m \in 1..MaxBags}}

\* the instance and the arguments of a call that is still to be made
Before(args) ==
  /\ attrs = Empty /\ config = Empty /\ feat = NoFeatures /\ tf = NoGraph
  /\ held = NothingHeld /\ fit = Idle /\ ret = NoCall
  /\ pure = args

InitGaz ==
  \E example \in GazExamples, pad \in {1, MaxBags}, useChar \in BOOLEAN :
    Before([fn |-> "none", example |-> example, pad |-> pad, useChar |-> useChar])

\* _extract_features(example) with encoders of padding length pure.pad
ExtractFeaturesCall ==
  /\ pure.fn = "none"
  /\ \E g \in ExtractedGazTokens(pure.example.bags) :
       pure' = [fn |-> "_extract_features", example |-> pure.example,
                result |-> ExtractFeaturesOf(pure.example, g, pure.pad,
                                             pure.useChar, pure.pad)]
  /\ UNCHANGED <<attrs, config, feat, tf, held, fit, ret>>

NextGaz == ExtractFeaturesCall

SpecGaz == InitGaz /\ [][NextGaz]_vars

----------------------------------------------------------------------------
(* _calculate_score on its own                                             *)

\* (mutation of TagsBelow: the whole row is compared)
TagsWhole(row, seq_len) == row

\* row[:seq_len], lines 370 and 371
TagsBelow(row, seq_len) == PySlice(row, 0, seq_len)

\* np.reshape(output_arr, [-1, pad, outdim]) of the flat output_arr followed
\* by np.argmax(., 2), lines 362-364
ReshapedOutput(output_arr, pad, outdim) ==
  [r \in 1..(Len(output_arr) \div (pad * outdim)) |->
     [j \in 1..pad |->
        Argmax([c \in 1..outdim |->
                  output_arr[((r - 1) * pad + (j - 1)) * outdim + c]])]]

\* np.argmax(label_arr, 2), line 365
ReshapedLabels(label_arr) ==
  [r \in DOMAIN label_arr |-> [j \in DOMAIN label_arr[r] |-> Argmax(label_arr[r][j])]]

\* the loop of lines 367-373 over the rows from the first: the score so far
RECURSIVE ScoreUpTo(_, _, _, _)
ScoreUpTo(idx, output, labels, seq_lengths_arr) ==
  IF idx = 0 THEN 0
  ELSE ScoreUpTo(idx - 1, output, labels, seq_lengths_arr)
       + (IF TagsBelow(output[idx], seq_lengths_arr[idx])
             = TagsBelow(labels[idx], seq_lengths_arr[idx])
          THEN 1 ELSE 0)

\* _calculate_score(output_arr, label_arr, seq_lengths_arr)
CalculateScore(output_arr, label_arr, seq_lengths_arr, pad, outdim) ==
  LET output == ReshapedOutput(output_arr, pad, outdim)
  IN  ScoreUpTo(Len(output), output, ReshapedLabels(label_arr), seq_lengths_arr)

\* the logits of one position: one class ahead, or all classes level
LogitVectors ==
  {[c \in 1..ScoreDim |-> IF c = k THEN 1 ELSE 0] : k \in 1..ScoreDim}
  \cup {[c \in 1..ScoreDim |-> 1]}

\* the one-hot encodings of the labels
OneHots == {[c \in 1..ScoreDim |-> IF c = k THEN 1 ELSE 0] : k \in 1..ScoreDim}

\* the array session.run returns, as np.reshape reads it: row after row,
\* position after position, class after class
Flat(rows) ==
  [p \in 1..(Len(rows) * ScorePad * ScoreDim) |->
     rows[((p - 1) \div (ScorePad * ScoreDim)) + 1]
         [(((p - 1) \div ScoreDim) % ScorePad) + 1]
         [((p - 1) % ScoreDim) + 1]]

\* the batches: up to ScoreRows rows of logits, labels and true lengths
InitScore ==
  \E n \in 1..ScoreRows :
    \E out \in [1..n -> [1..ScorePad -> LogitVectors]],
       label_arr \in [1..n -> [1..ScorePad -> OneHots]],
       seq_lengths_arr \in [1..n -> 0..ScorePad] :
      Before([fn |-> "none", output_arr |-> Flat(out), label_arr |-> label_arr,
              seq_lengths_arr |-> seq_lengths_arr])

\* one call of _calculate_score on the batch
CalculateScoreCall ==
  /\ pure.fn = "none"
  /\ pure' = [fn |-> "_calculate_score", output_arr |-> pure.output_arr,
              label_arr |-> pure.label_arr, seq_lengths_arr |-> pure.seq_lengths_arr,
              score |-> CalculateScore(pure.output_arr, pure.label_arr,
                                       pure.seq_lengths_arr, ScorePad, ScoreDim)]
  /\ UNCHANGED <<attrs, config, feat, tf, held, fit, ret>>

NextScore == CalculateScoreCall

SpecScore == InitScore /\ [][NextScore]_vars

----------------------------------------------------------------------------
(* Properties.                                                             *)

C3_GazTagIsSetOfTypes ==
  pure.fn = "_extract_features" =>
    \A i \in DOMAIN pure.example.bags :
      LET tag == pure.result.gaz_tokens[i]
          types == {key[2][2] : key \in {k \in pure.example.bags[i] : RegexMatch(k)}}
      IN  IF types = {}
          THEN tag = <<"O">>
          ELSE Range(tag) = types /\ Len(tag) = Cardinality(types)

\* a token with the start and the end key of type city got the tag city,
\* and a token with keys of which none matches got the default
C3_Witness ==
  /\ pure.fn = "_extract_features"
  /\ Len(pure.example.bags) = 2
  /\ pure.example.bags[1] = {KCityStart, KCityEnd}
  /\ pure.result.gaz_tokens[1] = <<"city">>
  /\ pure.example.bags[2] = {KBagOfWords, KNoTail}
  /\ pure.result.gaz_tokens[2] = <<DEFAULT_GAZ_LABEL>>

\* C4: when the number of derived gazetteer tags differs from the number of
\* normalized tokens, _extract_features raises before it calls any encoder
\* and produces no encoding.
C4_MismatchRaisesBeforeEncoding ==
  (/\ pure.fn = "_extract_features"
   /\ Len(pure.result.gaz_tokens) # Len(pure.example.tokens)) =>
    /\ pure.result.raised
    /\ pure.result.err = "AssertionError"
    /\ pure.result.calls = <<>>
    /\ pure.result.encoded_gaz = <<>>
    /\ pure.result.padded_query = <<>>
    /\ pure.result.padded_char = <<>>

\* the call was made for a query of one token with two bags, and raised
C4_Witness ==
  /\ pure.fn = "_extract_features"
  /\ Len(pure.example.tokens) = 1
  /\ Len(pure.example.bags) = 2
  /\ pure.result.raised

\* C5: the score is the number of rows whose predicted class equals the true
\* class at every position below the row's sequence length; the positions
\* from the sequence length on do not count.
C5_ScoreCountsMatchesBelowLength ==
  pure.fn = "_calculate_score" =>
    LET predicted(r, j) ==
          Argmax([c \in 1..ScoreDim |->
                    pure.output_arr[((r - 1) * ScorePad + (j - 1)) * ScoreDim + c]])
        actual(r, j) == Argmax(pure.label_arr[r][j])
    IN  pure.score =
          Cardinality({r \in DOMAIN pure.label_arr :
                         \A j \in 1..ScorePad :
                           j <= pure.seq_lengths_arr[r] => predicted(r, j) = actual(r, j)})

\* of two rows, one that is wrong only past its length was counted, and one
\* that is wrong below its length was not
C5_Witness ==
  /\ pure.fn = "_calculate_score"
  /\ Len(pure.label_arr) = 2
  /\ pure.score = 1
  /\ LET predicted(r, j) ==
           Argmax([c \in 1..ScoreDim |->
                     pure.output_arr[((r - 1) * ScorePad + (j - 1)) * ScoreDim + c]])
         actual(r, j) == Argmax(pure.label_arr[r][j])
     IN  /\ pure.seq_lengths_arr[1] = 1
         /\ predicted(1, 1) = actual(1, 1)
         /\ predicted(1, 2) # actual(1, 2)
         /\ pure.seq_lengths_arr[2] = 2
         /\ predicted(2, 2) # actual(2, 2)

C7_AbsentKeysTakeDefaults ==
  (ret.op = "extract_features" /\ ret.arg = "train") =>
    \A k \in ParamKeys \ DOMAIN config : attrs[AttrOf(k)] = DefaultOf(k)

\* C8: set_params applied to what get_params returns leaves every
\* configured value as it was.
C8_RoundTripKeepsValues ==
  [][(ret'.op = "set_params" /\ ret'.arg = "get_params") =>
       \A a \in ParamAttrs : attrs'[a] = attrs[a]]_vars

\* C9 (as stated): every fit call builds a graph that holds none of the
\* variables of an earlier fit call, and never collides with one.
C9_EveryFitStartsFresh ==
  ret.op = "fit" =>
    /\ \A v \in tf.vars : v.by = "this"
    /\ ~(ret.status = "raised" /\ ret.err = "ValueError")

\* C9 (amended): the first fit call after setup_model builds its variables
\* in the graph setup_model emptied, so none of an earlier call is there and
\* no name collides; a fit call made again without setup_model in between
\* finds the variables of the earlier call in the graph, and raises
\* ValueError when one of them has a name the LSTM network asks for.
C9_FitStartsFreshAfterSetupModel ==
  ret.op = "fit" =>
    /\ tf.sinceSetup = 1 =>
         /\ \A v \in tf.vars : v.by = "this"
         /\ ~(ret.status = "raised" /\ ret.err = "ValueError")
    /\ tf.sinceSetup > 1 =>
         /\ \E v \in tf.vars : v.by = "earlier"
         /\ (\E v \in tf.vars : v.by = "earlier" /\ v.name \in LstmNames) =>
              (ret.status = "raised" /\ ret.err = "ValueError")

\* a second fit call without setup_model has raised on a variable of the
\* first, in the second session of the instance
C9_Witness ==
  /\ ret.op = "fit" /\ ret.status = "raised" /\ ret.err = "ValueError"
  /\ tf.session = 2
  /\ tf.sinceSetup = 2
  /\ \E v \in tf.vars : v.by = "earlier" /\ v.name = "output_weights_tf"

\* C10: in an epoch the indices are a permutation of all examples, there are
\* ceil(n / batch_size) batches, every batch but the last holds batch_size
\* examples, the last holds between 1 and batch_size, and every example is
\* in exactly one batch.
C10_BatchesPartitionPermutation ==
  fit.pc = "batch" =>
    LET n == Len(held.X)
        size == attrs["batch_size"]
        batch(b) == BatchOf(fit.indices, b, size, FALSE).examples
        last == fit.num_batches - 1
    IN  /\ Len(fit.indices) = n
        /\ Range(fit.indices) = 1..n
        /\ fit.num_batches * size >= n
        /\ last * size < n
        /\ \A b \in 0..(last - 1) : Len(batch(b)) = size
        /\ Len(batch(last)) \in 1..size
        /\ \A i \in 1..n :
             Cardinality({bk \in (0..last) \X (1..size) :
                            /\ bk[2] <= Len(batch(bk[1]))
                            /\ batch(bk[1])[bk[2]] = held.X[i]}) = 1

\* an epoch of three shuffled examples in batches of two: two batches
C10_Witness ==
  /\ fit.pc = "batch"
  /\ Len(held.X) = 3
  /\ attrs["batch_size"] = 2
  /\ fit.num_batches = 2
  /\ fit.indices = <<3, 1, 2>>

\* C11: every batch of a fit call runs one optimizer step: the step that
\* ends the work on a batch leaves the count of optimizer steps one higher.
C11_EveryBatchRunsOneStep ==
  [][fit.pc = "batch" => ret'.steps = ret.steps + 1]_vars

\* C12 (as stated): in every batch assembled by _fit the example, gazetteer,
\* character, sequence-length and label arrays have the same number of rows.
C12_FiveArraysSameRows ==
  (ret.op = "fit" /\ ret.arg = "batch") =>
    /\ Len(ret.value.gaz) = Len(ret.value.examples)
    /\ Len(ret.value.char) = Len(ret.value.examples)
    /\ Len(ret.value.seq_len) = Len(ret.value.examples)
    /\ Len(ret.value.labels) = Len(ret.value.examples)

\* C12 (amended): in every batch assembled by _fit the example, gazetteer,
\* sequence-length and label arrays have the same number of rows and row k
\* of each belongs to the same example; the character array is aligned with
\* them when character embeddings are enabled and is the empty list when
\* they are disabled.
C12_BatchArraysAligned ==
  (ret.op = "fit" /\ ret.arg = "batch") =>
    LET b == ret.value
        rows == DOMAIN b.examples
    IN  /\ Len(b.examples) >= 1
        /\ Len(b.gaz) = Len(b.examples)
        /\ Len(b.seq_len) = Len(b.examples)
        /\ Len(b.labels) = Len(b.examples)
        /\ \A k \in rows :
             /\ b.examples[k] = held.X[b.examples[k].idx]
             /\ b.gaz[k] = feat.gaz[b.examples[k].idx]
             /\ b.labels[k] = held.y[b.examples[k].idx]
             /\ b.seq_len[k] = feat.seq[b.examples[k].idx]
        /\ IF attrs["use_char_embeddings"]
           THEN /\ Len(b.char) = Len(b.examples)
                /\ \A k \in rows : b.char[k] = feat.char[b.examples[k].idx]
           ELSE b.char = <<>>

\* a batch of two rows was assembled from shuffled examples, the third
\* example first, without character embeddings
C12_Witness ==
  /\ ret.op = "fit" /\ ret.arg = "batch"
  /\ ~attrs["use_char_embeddings"]
  /\ Len(ret.value.examples) = 2
  /\ ret.value.examples[1].idx = 3
  /\ ret.value.gaz[1].idx = 3
  /\ ret.value.char = <<>>

\* C13: whenever a fit call is about to run a training step on a batch, the
\* three keep probabilities the step's feed dictionary reads are the values
\* set_params took from the configuration (0.5 where the key is absent),
\* whatever calls were made before.
C13_TrainingKeepsConfiguredDropout ==
  fit.pc = "batch" =>
    \A k \in {"dense_keep_prob", "lstm_input_keep_prob", "lstm_output_keep_prob"} :
      attrs[AttrOf(k)] = Get(config, k, DefaultOf(k))

\* C14: whenever predict calls construct_feed_dictionary, the call returns a
\* dictionary that holds the query, gazetteer, sequence-length and three
\* keep-probability entries, holds the character entry exactly when the
\* character batch handed over is not empty, and holds no label entry (no
\* label batch is handed over).
C14_FeedDictionaryEntries ==
  (ret.op = "predict" /\ tf.out # "none") =>
    /\ ret.fed
    /\ {"query_input_tf", "gaz_input_tf", "batch_sequence_lengths_tf",
        "dense_keep_prob_tf", "lstm_input_keep_prob_tf",
        "lstm_output_keep_prob_tf"} \subseteq DOMAIN ret.feed
    /\ "char_input_tf" \in DOMAIN ret.feed <=> Len(feat.char) > 0
    /\ "label_tf" \notin DOMAIN ret.feed

\* C15: the graph construction of a fit call that follows setup_model runs
\* to its end, with or without character embeddings, and the embedding it
\* builds has token_embedding_dimension + gaz_encoding_dimension entries per
\* token without character embeddings, and the character dimension of every
\* window size more with them.
C15_GraphConstructionCompletes ==
  (ret.op = "fit" /\ tf.sinceSetup = 1) =>
    /\ tf.out = "live" /\ tf.outPh
    /\ tf.embdim =
         attrs["token_embedding_dimension"] + attrs["gaz_encoding_dimension"]
         + (IF attrs["use_char_embeddings"]
            THEN Len(attrs["char_window_sizes"]) * attrs["character_embedding_dimension"]
            ELSE 0)

====
